---- MODULE Spec2Model ----
(***************************************************************************)
(* TDResampler (sampler.py): a pandas DataFrame of OHLC bars indexed by a  *)
(* DateTime, and the five operations that work on it: convert_tz,          *)
(* resample, apply_cutoff, apply_precision and write_csv.                  *)
(*                                                                         *)
(* Time is counted in whole hours of wall-clock time in the zone of the    *)
(* index; hour 0 is Monday 2018-12-17 00:00.  Zones have their standard    *)
(* (winter) offset, the season of the dates the script works on.  A value  *)
(* is an exact fraction n/d; d = 0 is the missing value NaN.               *)
(***************************************************************************)
EXTENDS Integers, Sequences, FiniteSets, TLC

VARIABLES
    df,         \* self.df: the rows of the table, in table order
    dfcols,     \* self.df.columns, in order
    idx_tz,     \* the zone of self.df.index, "naive" when it has none
    tz,         \* self.tz
    ohlc_dict,  \* self.ohlc_dict
    csv,        \* what the last to_csv wrote
    log,        \* the WARNING and ERROR lines of the last call
    fault,      \* the exception the last call raised to its caller
    op,         \* the last call and its arguments
    pre,        \* df, dfcols, idx_tz, tz and ohlc_dict as the last call found them
    calls       \* the number of calls made so far

vars == <<df, dfcols, idx_tz, tz, ohlc_dict, csv, log, fault, op, pre, calls>>

(***************************************************************************)
(* Bounds of the model.                                                    *)
(***************************************************************************)
MaxRows == 3
MaxCalls == 2

(***************************************************************************)
(* Values.                                                                 *)
(***************************************************************************)
RECURSIVE GCD(_, _)
GCD(a, b) == IF b = 0 THEN a ELSE GCD(b, a % b)

Abs(x) == IF x < 0 THEN -x ELSE x

NaN == [n |-> 0, d |-> 0]
IsNaN(x) == x.d = 0

\* the fraction n/d in lowest terms, d > 0
Q(n, d) == LET g == GCD(Abs(n), d) IN [n |-> n \div g, d |-> d \div g]

QLess(x, y) == x.n * y.d < y.n * x.d
QAdd(x, y) == Q(x.n * y.d + y.n * x.d, x.d * y.d)

RECURSIVE Pow10(_)
Pow10(p) == IF p = 0 THEN 1 ELSE 10 * Pow10(p - 1)

\* numpy's round: to the nearest multiple of 10^-decimals, a tie to the even one
RoundHalfEven(x, decimals) ==
    IF IsNaN(x) THEN NaN
    ELSE LET s == Pow10(decimals)
             num == x.n * s
             k == num \div x.d
             rem2 == 2 * (num - k * x.d)
             r == IF rem2 < x.d THEN k
                  ELSE IF rem2 > x.d THEN k + 1
                  ELSE IF k % 2 = 0 THEN k ELSE k + 1
         IN Q(r, s)

(***************************************************************************)
(* Sequences.                                                              *)
(***************************************************************************)
Range(s) == {s[i] : i \in 1..Len(s)}

RECURSIVE RemoveFirst(_, _)
\* list.remove(x): the list without its first x
RemoveFirst(s, x) ==
    IF s = <<>> THEN <<>>
    ELSE IF Head(s) = x THEN Tail(s)
    ELSE <<Head(s)>> \o RemoveFirst(Tail(s), x)

RECURSIVE SeqsUpTo(_, _)
SeqsUpTo(S, n) ==
    IF n = 0 THEN {<<>>}
    ELSE LET shorter == SeqsUpTo(S, n - 1)
         IN shorter \cup {Append(s, x) : s \in {t \in shorter : Len(t) = n - 1}, x \in S}

(***************************************************************************)
(* The calendar.                                                           *)
(***************************************************************************)
HoursPerDay == 24
DaysPerWeek == 7
Friday == 4

Day(t) == t \div HoursPerDay
TimeOfDay(t) == t % HoursPerDay
Midnight(d) == d * HoursPerDay
\* pandas' weekday: Monday is 0
Weekday(d) == d % DaysPerWeek

(***************************************************************************)
(* The table.                                                              *)
(***************************************************************************)
datetime_col == <<"Date", "Time">>
cols == <<"Date", "Time", "Open", "High", "Low", "Close", "Up", "Down">>

\* the columns read_csv keeps beside the index
DataCols == SelectSeq(cols, LAMBDA c : c \notin Range(datetime_col))

Bar(o, h, l, c, u, w) ==
    [Open |-> o, High |-> h, Low |-> l, Close |-> c, Up |-> u, Down |-> w]

Row(t, bar) == [ts |-> t, v |-> bar]

Stamps(rows) == {rows[i].ts : i \in 1..Len(rows)}

\* no timestamp twice, and the rows in ascending order of timestamp
SortedUnique(rows) == \A i \in 1..Len(rows) - 1 : rows[i].ts < rows[i + 1].ts

AllPresent(rows) ==
    \A i \in 1..Len(rows) : \A c \in DOMAIN rows[i].v : ~IsNaN(rows[i].v[c])

Snapshot == [df |-> df, dfcols |-> dfcols, idx_tz |-> idx_tz, tz |-> tz,
             ohlc_dict |-> ohlc_dict]

\* a dict is the sequence of its (key, value) pairs, in insertion order
NoDict == [none |-> TRUE, items |-> <<>>]
Dict(items) == [none |-> FALSE, items |-> items]
Keys(dict) == {dict.items[i][1] : i \in 1..Len(dict.items)}
KeyList(dict) == [i \in 1..Len(dict.items) |-> dict.items[i][1]]
Lookup(dict, key) ==
    LET i == CHOOSE j \in 1..Len(dict.items) : dict.items[j][1] = key
    IN dict.items[i][2]

NoCsv == [written |-> FALSE, header |-> <<>>, rows |-> <<>>]

\* TDResampler.__init__ on a file with these rows
Load(rows) ==
    /\ df = rows
    /\ dfcols = DataCols
    /\ idx_tz = "naive"
    /\ tz = "None"
    /\ ohlc_dict = NoDict
    /\ csv = NoCsv
    /\ log = <<>>
    /\ fault = "none"
    /\ op = [name |-> "load"]
    /\ pre = [df |-> <<>>, dfcols |-> <<>>, idx_tz |-> "naive", tz |-> "None",
              ohlc_dict |-> NoDict]
    /\ calls = 0

\* a call takes place while the caller's run goes on
CanCall == fault = "none" /\ calls < MaxCalls

Called(record) ==
    /\ op' = record
    /\ pre' = Snapshot
    /\ calls' = calls + 1

(***************************************************************************)
(* resample: DataFrame.resample(freq, closed, label).agg(ohlc_dict)        *)
(*           .dropna(how='any')                                            *)
(***************************************************************************)
Present(vals) == SelectSeq(vals, LAMBDA x : ~IsNaN(x))

QMin(x, y) == IF QLess(y, x) THEN y ELSE x
QMax(x, y) == IF QLess(x, y) THEN y ELSE x

RECURSIVE MinOf(_, _)
MinOf(acc, s) == IF s = <<>> THEN acc ELSE MinOf(QMin(acc, Head(s)), Tail(s))
RECURSIVE MaxOf(_, _)
MaxOf(acc, s) == IF s = <<>> THEN acc ELSE MaxOf(QMax(acc, Head(s)), Tail(s))
RECURSIVE SumOf(_, _)
SumOf(acc, s) == IF s = <<>> THEN acc ELSE SumOf(QAdd(acc, Head(s)), Tail(s))

\* the groupby reductions: each skips NaN; only sum has a value for no values
AggFirst(vals) == LET p == Present(vals) IN IF p = <<>> THEN NaN ELSE p[1]
AggLast(vals) == LET p == Present(vals) IN IF p = <<>> THEN NaN ELSE p[Len(p)]
AggMin(vals) == LET p == Present(vals) IN IF p = <<>> THEN NaN ELSE MinOf(p[1], p)
AggMax(vals) == LET p == Present(vals) IN IF p = <<>> THEN NaN ELSE MaxOf(p[1], p)
AggSum(vals) == SumOf(Q(0, 1), Present(vals))
AggMean(vals) ==
    LET p == Present(vals)
        s == AggSum(vals)
    IN IF p = <<>> THEN NaN ELSE Q(s.n, s.d * Len(p))

Agg(fn, vals) ==
    CASE fn = "first" -> AggFirst(vals)
      [] fn = "last" -> AggLast(vals)
      [] fn = "min" -> AggMin(vals)
      [] fn = "max" -> AggMax(vals)
      [] fn = "sum" -> AggSum(vals)
      [] fn = "mean" -> AggMean(vals)

RECURSIVE Insert(_, _)
Insert(sorted, r) ==
    IF sorted = <<>> THEN <<r>>
    ELSE IF r.ts < Head(sorted).ts THEN <<r>> \o sorted
    ELSE <<Head(sorted)>> \o Insert(Tail(sorted), r)

\* a resample that groups the rows in file order
SortByTsKeepsFileOrder(rows) == rows

RECURSIVE SortByTs(_)
\* the grouper's stable sort of the rows by timestamp
SortByTs(rows) ==
    IF rows = <<>> THEN <<>>
    ELSE Insert(SortByTs(SubSeq(rows, 1, Len(rows) - 1)), rows[Len(rows)])

\* a resample without the override of "W"
FreqAsGiven(interval) == interval

\* the frequency resample hands to pandas
Freq(interval) == IF interval = "W" THEN "W-FRI" ELSE interval

IsWeekly(freq) == freq \in {"W", "W-FRI"}
\* the day a weekly frequency is anchored on ("W" alone is "W-SUN")
AnchorDay(freq) == IF freq = "W-FRI" THEN Friday ELSE DaysPerWeek - 1
TickHours(freq) == IF freq = "D" THEN HoursPerDay ELSE HoursPerDay \div 2
Width(freq) == IF IsWeekly(freq) THEN DaysPerWeek * HoursPerDay ELSE TickHours(freq)

\* the left edge of the bucket a timestamp falls in.  A tick bucket is
\* [k*w, (k+1)*w) closed left and (k*w, (k+1)*w] closed right; a weekly bucket
\* is [anchor 00:00, next anchor 00:00) closed left and, closed right, the
\* whole days after one anchor day up to and including the next.
BucketOf(freq, closed, t) ==
    IF IsWeekly(freq)
    THEN LET d == Day(t)
             a == AnchorDay(freq)
         IN IF closed = "left"
            THEN Midnight(d - ((Weekday(d) - a) % DaysPerWeek))
            ELSE Midnight(d + ((a - Weekday(d)) % DaysPerWeek) - DaysPerWeek)
    ELSE LET w == TickHours(freq)
         IN IF closed = "left" THEN (t \div w) * w ELSE ((t - 1) \div w) * w

\* the timestamp of the bucket's output row
LabelOf(freq, label, edge) == IF label = "left" THEN edge ELSE edge + Width(freq)

InBucket(rows, freq, closed, edge) ==
    SelectSeq(rows, LAMBDA r : BucketOf(freq, closed, r.ts) = edge)

Column(rows, c) == [i \in 1..Len(rows) |-> rows[i].v[c]]

SetMin(S) == CHOOSE x \in S : \A y \in S : x <= y
SetMax(S) == CHOOSE x \in S : \A y \in S : x >= y

\* a grouping that opens a bin for every row
BinPerRow(rows, freq, closed) ==
    [i \in 1..Len(rows) |-> BucketOf(freq, closed, rows[i].ts)]

\* the bins: every bucket from the first row's to the last row's, empty or not
Bins(rows, freq, closed) ==
    IF rows = <<>> THEN <<>>
    ELSE LET edges == {BucketOf(freq, closed, t) : t \in Stamps(rows)}
             lo == SetMin(edges)
             n == (SetMax(edges) - lo) \div Width(freq) + 1
         IN [i \in 1..n |-> lo + (i - 1) * Width(freq)]

Aggregate(rows, freq, closed, label, dict) ==
    LET sorted == SortByTs(rows)
        bins == Bins(sorted, freq, closed)
    IN [i \in 1..Len(bins) |->
           LET group == InBucket(sorted, freq, closed, bins[i])
           IN [ts |-> LabelOf(freq, label, bins[i]),
               v |-> [c \in Keys(dict) |-> Agg(Lookup(dict, c), Column(group, c))]]]

\* dropna(how='any')
DropNa(rows) == SelectSeq(rows, LAMBDA r : \A c \in DOMAIN r.v : ~IsNaN(r.v[c]))

Resample(interval, dict, closed, label) ==
    /\ CanCall
    /\ Called([name |-> "resample", interval |-> interval, dict |-> dict,
               closed |-> closed, label |-> label])
    /\ ohlc_dict' = dict
    /\ log' = <<>>
    /\ IF Keys(dict) \subseteq Range(dfcols)
       THEN /\ df' = DropNa(Aggregate(df, Freq(interval), closed, label, dict))
            /\ dfcols' = KeyList(dict)
            /\ fault' = "none"
       ELSE \* agg on a column the table does not have
            /\ fault' = "KeyError"
            /\ UNCHANGED <<df, dfcols>>
    /\ UNCHANGED <<idx_tz, tz, csv>>

(***************************************************************************)
(* convert_tz: index.tz_localize(from_tz).tz_convert(to_tz) inside a try   *)
(***************************************************************************)
ZoneNames == {"US/Central", "US/Eastern", "UTC"}

\* hours ahead of UTC
UtcOffset(zone) ==
    CASE zone = "US/Central" -> -6
      [] zone = "US/Eastern" -> -5
      [] zone = "UTC" -> 0

Error(msg) == [level |-> "ERROR", msg |-> msg, col |-> ""]
Warning(msg, c) == [level |-> "WARNING", msg |-> msg, col |-> c]

\* the wall-clock time in to_tz of the instant that reads t in from_tz
Reexpress(t, from_tz, to_tz) == t - UtcOffset(from_tz) + UtcOffset(to_tz)

Shifted(rows, from_tz, to_tz) ==
    [i \in 1..Len(rows) |-> [rows[i] EXCEPT !.ts = Reexpress(@, from_tz, to_tz)]]

\* what the try block raises: pytz.timezone(from_tz), tz_localize,
\* pytz.timezone(to_tz) and tz_convert, in the order they are evaluated
ConvertRaises(from_tz, to_tz) ==
    IF from_tz \notin ZoneNames THEN "UnknownTimeZoneError"
    ELSE IF idx_tz # "naive" THEN "TypeError"
    ELSE IF to_tz \notin ZoneNames THEN "UnknownTimeZoneError"
    ELSE "none"

\* a convert_tz that records the target zone before it tries to convert
ConvertTzTagFirst(from_tz, to_tz) ==
    /\ CanCall
    /\ Called([name |-> "convert_tz", from_tz |-> from_tz, to_tz |-> to_tz])
    /\ tz' = to_tz
    /\ IF ConvertRaises(from_tz, to_tz) = "none"
       THEN /\ df' = Shifted(df, from_tz, to_tz)
            /\ idx_tz' = to_tz
            /\ log' = <<>>
       ELSE /\ log' = IF ConvertRaises(from_tz, to_tz) = "UnknownTimeZoneError"
                      THEN <<Error("UnknownTimeZoneError")>>
                      ELSE <<Error("Some exception")>>
            /\ UNCHANGED <<df, idx_tz>>
    /\ fault' = "none"
    /\ UNCHANGED <<dfcols, ohlc_dict, csv>>

ConvertTz(from_tz, to_tz) ==
    /\ CanCall
    /\ Called([name |-> "convert_tz", from_tz |-> from_tz, to_tz |-> to_tz])
    /\ IF ConvertRaises(from_tz, to_tz) = "none"
       THEN /\ df' = Shifted(df, from_tz, to_tz)
            /\ idx_tz' = to_tz
            /\ tz' = to_tz
            /\ log' = <<>>
       ELSE /\ log' = IF ConvertRaises(from_tz, to_tz) = "UnknownTimeZoneError"
                      THEN <<Error("UnknownTimeZoneError")>>
                      ELSE <<Error("Some exception")>>
            /\ UNCHANGED <<df, idx_tz, tz>>
    /\ fault' = "none"
    /\ UNCHANGED <<dfcols, ohlc_dict, csv>>

(***************************************************************************)
(* apply_cutoff: between_time, then index > start_date, then               *)
(* index < end_date; -1 is "not supplied"                                  *)
(***************************************************************************)
NotSupplied == -1

\* a between_time that leaves the end time out
BetweenTimeOpenEnd(rows, start_time, end_time) ==
    SelectSeq(rows, LAMBDA r :
        IF start_time <= end_time
        THEN start_time <= TimeOfDay(r.ts) /\ TimeOfDay(r.ts) < end_time
        ELSE start_time <= TimeOfDay(r.ts) \/ TimeOfDay(r.ts) < end_time)

\* DataFrame.between_time(start_time, end_time), both ends included; a start
\* later than the end selects the times from the start on through midnight
\* to the end
BetweenTime(rows, start_time, end_time) ==
    SelectSeq(rows, LAMBDA r :
        IF start_time <= end_time
        THEN start_time <= TimeOfDay(r.ts) /\ TimeOfDay(r.ts) <= end_time
        ELSE start_time <= TimeOfDay(r.ts) \/ TimeOfDay(r.ts) <= end_time)

\* a start_date filter that keeps the row at 00:00 of start_date
AfterDateInclusive(rows, start_date) ==
    SelectSeq(rows, LAMBDA r : r.ts >= Midnight(start_date))

\* query("index > 'start_date'"): a date reads as its 00:00
AfterDate(rows, start_date) == SelectSeq(rows, LAMBDA r : r.ts > Midnight(start_date))

\* query("index < 'end_date'")
BeforeDate(rows, end_date) == SelectSeq(rows, LAMBDA r : r.ts < Midnight(end_date))

ApplyCutoff(start_time, end_time, start_date, end_date) ==
    /\ CanCall
    /\ Called([name |-> "apply_cutoff", start_time |-> start_time, end_time |-> end_time,
               start_date |-> start_date, end_date |-> end_date])
    /\ LET timed == IF start_time # NotSupplied /\ end_time # NotSupplied
                    THEN BetweenTime(df, start_time, end_time) ELSE df
           started == IF start_date # NotSupplied THEN AfterDate(timed, start_date) ELSE timed
           ended == IF end_date # NotSupplied THEN BeforeDate(started, end_date) ELSE started
       IN df' = ended
    /\ log' = <<>>
    /\ fault' = "none"
    /\ UNCHANGED <<dfcols, idx_tz, tz, ohlc_dict, csv>>

(***************************************************************************)
(* apply_precision: DataFrame.round(decimals)                              *)
(***************************************************************************)
Rounded(rows, decimals) ==
    [i \in 1..Len(rows) |->
        [rows[i] EXCEPT !.v = [c \in DOMAIN @ |-> RoundHalfEven(@[c], decimals)]]]

ApplyPrecision(precision) ==
    /\ CanCall
    /\ Called([name |-> "apply_precision", precision |-> precision])
    /\ df' = Rounded(df, precision)
    /\ log' = <<>>
    /\ fault' = "none"
    /\ UNCHANGED <<dfcols, idx_tz, tz, ohlc_dict, csv>>

(***************************************************************************)
(* write_csv: the two loops over the caller's list, the projection         *)
(* self.df[columns] and to_csv                                             *)
(***************************************************************************)
RECURSIVE DropDatetime(_, _)
\* for val in self.datetime_col: if val in columns: columns.remove(val)
DropDatetime(columns, names) ==
    IF names = <<>> THEN columns
    ELSE DropDatetime(IF Head(names) \in Range(columns)
                      THEN RemoveFirst(columns, Head(names)) ELSE columns,
                      Tail(names))

RECURSIVE Discard(_, _, _, _)
\* for val in columns: if val not in keys: warn; columns.remove(val)
\* The list iterator reads columns[i] and moves to i + 1 whatever the body
\* removed.  The result is the pair (columns left, warnings logged).
Discard(columns, i, keys, warned) ==
    IF i > Len(columns) THEN <<columns, warned>>
    ELSE IF columns[i] \notin keys
         THEN Discard(RemoveFirst(columns, columns[i]), i + 1, keys,
                      Append(warned, Warning("discarded", columns[i])))
         ELSE Discard(columns, i + 1, keys, warned)

Project(rows, columns) ==
    [i \in 1..Len(rows) |-> [rows[i] EXCEPT !.v = [c \in Range(columns) |-> @[c]]]]

WriteCsv(columns) ==
    /\ CanCall
    /\ Called([name |-> "write_csv", columns |-> columns])
    /\ IF ohlc_dict.none
       THEN \* None has no keys()
            /\ fault' = "AttributeError"
            /\ log' = <<>>
            /\ UNCHANGED <<df, dfcols, csv>>
       ELSE LET kept == Discard(DropDatetime(columns, datetime_col), 1, Keys(ohlc_dict), <<>>)
            IN /\ log' = kept[2]
               /\ IF Range(kept[1]) \subseteq Range(dfcols)
                  THEN /\ df' = Project(df, kept[1])
                       /\ dfcols' = kept[1]
                       /\ csv' = [written |-> TRUE, header |-> kept[1],
                                  rows |-> Project(df, kept[1])]
                       /\ fault' = "none"
                  ELSE \* self.df[columns] with a column the table does not have
                       /\ fault' = "KeyError"
                       /\ UNCHANGED <<df, dfcols, csv>>
    /\ UNCHANGED <<idx_tz, tz, ohlc_dict>>

(***************************************************************************)
(* The inputs the specifications draw from.                                *)
(***************************************************************************)
BarA == Bar(Q(5, 4), Q(5, 2), Q(1, 1), Q(9, 4), Q(3, 1), Q(1, 1))
BarB == Bar(Q(9, 4), Q(11, 4), Q(3, 2), Q(7, 4), Q(2, 1), Q(4, 1))
\* a bar whose Open is missing
BarC == Bar(NaN, Q(2, 1), Q(3, 4), Q(3, 2), Q(1, 1), Q(2, 1))

At(d, h) == Midnight(d) + h

\* files: any rows, in any order, a timestamp as often as it likes
Files(stamps, bars) == SeqsUpTo({Row(t, b) : t \in stamps, b \in bars}, MaxRows)

OHLC_DICT == Dict(<< <<"Open", "first">>, <<"High", "max">>, <<"Low", "min">>,
                     <<"Close", "last">>, <<"Up", "last">>, <<"Down", "last">> >>)
SumDict == Dict(<< <<"Up", "sum">>, <<"Down", "sum">> >>)
MeanDict == Dict(<< <<"Open", "mean">>, <<"Close", "sum">> >>)

RESAMPLE == [closed |-> "left", label |-> "right"]
Edges == {"left", "right"}

\* write_csv's default column list
DefaultColumns == <<"Open", "High", "Low", "Close", "Up", "Down">>

(***************************************************************************)
(* Spec: a caller that makes up to MaxCalls calls, any of the five, on a   *)
(* freshly loaded table.  A call that raises ends the run.                 *)
(***************************************************************************)
Init ==
    \E rows \in Files({At(0, 0), At(4, 9)}, {BarA, BarC}) : Load(rows)

DoConvertTz ==
    \E from_tz, to_tz \in {"US/Central", "US/Eastern", "Mars/Phobos"} :
        ConvertTz(from_tz, to_tz)

DoResample ==
    \E interval \in {"D", "W"}, dict \in {OHLC_DICT, SumDict}, closed \in Edges :
        Resample(interval, dict, closed, RESAMPLE.label)

DoApplyCutoff ==
    \E a \in {<<9, 15, NotSupplied, NotSupplied>>, <<NotSupplied, NotSupplied, 0, 5>>,
               <<15, 0, NotSupplied, 4>>} :
        ApplyCutoff(a[1], a[2], a[3], a[4])

DoApplyPrecision == \E precision \in {1, 2} : ApplyPrecision(precision)

DoWriteCsv ==
    \E columns \in {DefaultColumns, <<"Date", "Open", "Close">>,
                     <<"Open", "Volume", "Close">>, <<"Open", "Foo", "Bar", "Close">>,
                     <<"Foo", "Foo", "Open">>} :
        WriteCsv(columns)

Next == DoConvertTz \/ DoResample \/ DoApplyCutoff \/ DoApplyPrecision \/ DoWriteCsv

Spec == Init /\ [][Next]_vars

(***************************************************************************)
(* SpecResample: one resample of a freshly loaded table.                   *)
(***************************************************************************)
InitResample ==
    \E rows \in Files({At(0, 9), At(0, 15), At(4, 0), At(12, 9)},
                       {BarA, BarB, BarC}) : Load(rows)

FirstResample ==
    /\ calls = 0
    /\ \E interval \in {"D", "W"}, dict \in {OHLC_DICT, SumDict, MeanDict},
          closed \in Edges, label \in Edges :
           Resample(interval, dict, closed, label)

SpecResample == InitResample /\ [][FirstResample]_vars

(***************************************************************************)
(* SpecCutoff: one apply_cutoff of a freshly loaded table.                 *)
(***************************************************************************)
InitCutoff ==
    \E rows \in Files({At(1, 0), At(1, 9), At(2, 9), At(3, 0), At(3, 15)}, {BarA}) :
        Load(rows)

FirstCutoff ==
    /\ calls = 0
    /\ \E start_time, end_time \in {NotSupplied, 0, 9, 15},
          start_date, end_date \in {NotSupplied, 1, 3} :
           ApplyCutoff(start_time, end_time, start_date, end_date)

SpecCutoff == InitCutoff /\ [][FirstCutoff]_vars

(***************************************************************************)
(* The claims.                                                             *)
(***************************************************************************)
Rows(rows) == Range(rows)
ResampleDone == op.name = "resample" /\ fault = "none"
HasRowAt(rows, t) == \E i \in 1..Len(rows) : rows[i].ts = t

\* the aggregates of the rows of one bucket, one per key of the dict
NoAggregateMissing(group, dict) ==
    \A c \in Keys(dict) : ~IsNaN(Agg(Lookup(dict, c), Column(group, c)))

\* the bucket edges around the source rows: those of the rows, and the
\* buckets between, before and after them
EdgesAround(rows, freq, closed) ==
    LET edges == {BucketOf(freq, closed, t) : t \in Stamps(rows)}
    IN IF edges = {} THEN {0}
       ELSE {e \in (SetMin(edges) - Width(freq))..(SetMax(edges) + Width(freq)) :
                (e - SetMin(edges)) % Width(freq) = 0}

\* C1: after resample a bucket has a row in the table if and only if it
\* holds at least one source row and every column of the aggregation spec
\* aggregates to a value that is not missing; a bucket without source rows
\* never has a row.
C1_BucketRowIffRowsAndNoMissing ==
    ResampleDone =>
        \A e \in EdgesAround(pre.df, Freq(op.interval), op.closed) :
            LET group == InBucket(pre.df, Freq(op.interval), op.closed, e)
            IN HasRowAt(df, LabelOf(Freq(op.interval), op.label, e))
                   <=> (group # <<>> /\ NoAggregateMissing(group, op.dict))

DailyOHLC ==
    /\ ResampleDone
    /\ op.interval = "D" /\ op.closed = "left" /\ op.label = "right"
    /\ op.dict = OHLC_DICT
    /\ AllPresent(pre.df)

RowsOfDay(rows, d) == SelectSeq(rows, LAMBDA r : Day(r.ts) = d)

\* the first of the rows with the least timestamp, the last of those with
\* the greatest
Earliest(rows) ==
    rows[SetMin({i \in 1..Len(rows) : \A j \in 1..Len(rows) : rows[i].ts <= rows[j].ts})]
Latest(rows) ==
    rows[SetMax({i \in 1..Len(rows) : \A j \in 1..Len(rows) : rows[i].ts >= rows[j].ts})]

\* C2: a daily resample, closed left and labelled right, with the OHLC
\* aggregation spec over a table without missing values gives every day
\* that has a source row exactly one row, labelled 00:00 of the following
\* day, with the Open of the day's earliest row, the Close, Up and Down of
\* its latest row, the greatest High and the least Low of the day's rows;
\* and it gives no other row.
C2_DailyBarPerDay ==
    DailyOHLC =>
        /\ Len(df) = Cardinality({Day(t) : t \in Stamps(pre.df)})
        /\ \A d \in {Day(t) : t \in Stamps(pre.df)} :
               LET day == RowsOfDay(pre.df, d)
                   out == SelectSeq(df, LAMBDA r : r.ts = Midnight(d + 1))
               IN /\ Len(out) = 1
                  /\ out[1].v.Open = Earliest(day).v.Open
                  /\ out[1].v.Close = Latest(day).v.Close
                  /\ out[1].v.Up = Latest(day).v.Up
                  /\ out[1].v.Down = Latest(day).v.Down
                  /\ \E r \in Rows(day) : out[1].v.High = r.v.High
                  /\ \A r \in Rows(day) : ~QLess(out[1].v.High, r.v.High)
                  /\ \E r \in Rows(day) : out[1].v.Low = r.v.Low
                  /\ \A r \in Rows(day) : ~QLess(r.v.Low, out[1].v.Low)

\* a day given latest row first, with different bars, and a row of another day
C2_Witness ==
    /\ DailyOHLC
    /\ Len(pre.df) = 3 /\ Len(df) = 2
    /\ pre.df[1].ts = At(0, 15) /\ pre.df[2].ts = At(0, 9)
    /\ pre.df[1].v # pre.df[2].v

WeeklyLeftRight ==
    /\ ResampleDone
    /\ op.interval = "W" /\ op.closed = "left" /\ op.label = "right"

IsFridayMidnight(t) == Weekday(Day(t)) = Friday /\ TimeOfDay(t) = 0

\* the source rows of the week that ends, exclusively, at 00:00 of Friday f
RowsOfWeekTo(rows, f) ==
    SelectSeq(rows, LAMBDA r : f - DaysPerWeek * HoursPerDay <= r.ts /\ r.ts < f)

\* the Friday 00:00 that ends the week of timestamp t
WeekEndOf(t) ==
    CHOOSE f \in {Midnight(d) : d \in Day(t)..(Day(t) + DaysPerWeek)} :
        IsFridayMidnight(f) /\ f - DaysPerWeek * HoursPerDay <= t /\ t < f

AllSum(dict) == \A c \in Keys(dict) : Lookup(dict, c) = "sum"

\* C3 as stated: a weekly resample, closed left and labelled right, labels
\* every output row on a Saturday, and gives as many rows as there are
\* Friday-anchored weeks with at least one source row.
C3_LabelledOnSaturday ==
    WeeklyLeftRight =>
        /\ \A r \in Rows(df) : Weekday(Day(r.ts)) = Friday + 1
        /\ Len(df) = Cardinality({WeekEndOf(t) : t \in Stamps(pre.df)})

\* C3 as amended: a weekly resample, closed left and labelled right, groups
\* the rows into the weeks [Friday 00:00, next Friday 00:00) and labels every
\* output row with the Friday 00:00 that ends its week, one row per week; a
\* week with a source row has a row exactly when none of its aggregates is
\* missing, and a week without source rows has one only when every column is
\* aggregated by sum and the week lies between two weeks with source rows.
C3_LabelledOnFriday ==
    WeeklyLeftRight =>
        /\ SortedUnique(df)
        /\ \A r \in Rows(df) :
               /\ IsFridayMidnight(r.ts)
               /\ \/ RowsOfWeekTo(pre.df, r.ts) # <<>>
                  \/ /\ AllSum(op.dict)
                     /\ \E t, u \in Stamps(pre.df) : WeekEndOf(t) < r.ts /\ r.ts < WeekEndOf(u)
               /\ NoAggregateMissing(SortByTs(RowsOfWeekTo(pre.df, r.ts)), op.dict)
        /\ \A t \in Stamps(pre.df) :
               NoAggregateMissing(SortByTs(RowsOfWeekTo(pre.df, WeekEndOf(t))), op.dict)
                   => HasRowAt(df, WeekEndOf(t))

\* rows from Monday to the Saturday of the next week, across two Fridays,
\* among them a row at Friday 00:00, which opens a week
C3_Witness ==
    /\ WeeklyLeftRight
    /\ Stamps(pre.df) = {At(0, 9), At(4, 0), At(12, 9)}
    /\ Len(df) = 3
    /\ df[1].ts = At(4, 0) /\ df[2].ts = At(11, 0) /\ df[3].ts = At(18, 0)

CutoffDone == op.name = "apply_cutoff"
TimesSupplied == op.start_time # NotSupplied /\ op.end_time # NotSupplied

AfterStart(t) == op.start_date # NotSupplied => t > Midnight(op.start_date)
BeforeEnd(t) == op.end_date # NotSupplied => t < Midnight(op.end_date)

\* on a date after start_date and before end_date
BetweenDates(t) ==
    /\ op.start_date # NotSupplied => Day(t) > op.start_date
    /\ op.end_date # NotSupplied => Day(t) < op.end_date

\* C4 as stated: after apply_cutoff no row of calendar date start_date and
\* no row of calendar date end_date is left, at whatever time of day, and
\* the rows of the dates strictly between are all kept.
C4_BoundaryDatesExcluded ==
    CutoffDone =>
        /\ \A r \in Rows(df) : BetweenDates(r.ts)
        /\ ~TimesSupplied => \A r \in Rows(pre.df) : BetweenDates(r.ts) => r \in Rows(df)

\* C4 as amended: after apply_cutoff the rows left are later than 00:00 of
\* start_date and earlier than 00:00 of end_date: no row at exactly
\* start_date 00:00 or end_date 00:00 and no row of calendar date end_date
\* is left, but the rows of calendar date start_date after 00:00 are kept,
\* as are all rows between.
C4_DatesCutAtMidnight ==
    CutoffDone =>
        /\ \A r \in Rows(df) :
               /\ AfterStart(r.ts) /\ BeforeEnd(r.ts)
               /\ op.end_date # NotSupplied => Day(r.ts) # op.end_date
        /\ ~TimesSupplied =>
               df = SelectSeq(pre.df, LAMBDA r : AfterStart(r.ts) /\ BeforeEnd(r.ts))

\* the row at 00:00 of start_date goes, the 09:00 row of that date stays,
\* and both rows of end_date go
C4_Witness ==
    /\ CutoffDone /\ ~TimesSupplied
    /\ op.start_date = 1 /\ op.end_date = 3
    /\ Stamps(pre.df) = {At(1, 0), At(1, 9), At(3, 0)}
    /\ Stamps(df) = {At(1, 9)}

InWindow(t) ==
    IF op.start_time <= op.end_time
    THEN op.start_time <= TimeOfDay(t) /\ TimeOfDay(t) <= op.end_time
    ELSE op.start_time <= TimeOfDay(t) \/ TimeOfDay(t) <= op.end_time

DatesSupplied == op.start_date # NotSupplied \/ op.end_date # NotSupplied

\* C5 as stated: with start_time and end_time both supplied, whichever is
\* the later, the rows kept are those with start_time <= time of day <=
\* end_time; with only one of them supplied no row is removed by the time
\* of day.
C5_WindowIsAnInterval ==
    CutoffDone /\ ~DatesSupplied =>
        IF TimesSupplied
        THEN df = SelectSeq(pre.df, LAMBDA r :
                     op.start_time <= TimeOfDay(r.ts) /\ TimeOfDay(r.ts) <= op.end_time)
        ELSE df = pre.df

\* C5 as amended: with start_time <= end_time the rows kept are those with
\* start_time <= time of day <= end_time, both bounds included; with
\* start_time later than end_time they are those with time of day >=
\* start_time or <= end_time (the window runs through midnight); with only
\* one of the two supplied no row is removed by the time of day.
C5_WindowWrapsMidnight ==
    CutoffDone =>
        /\ \A r \in Rows(df) : TimesSupplied => InWindow(r.ts)
        /\ ~DatesSupplied =>
               IF TimesSupplied
               THEN df = SelectSeq(pre.df, LAMBDA r : InWindow(r.ts))
               ELSE df = pre.df

\* both bounds are times of rows and are kept, the row between them goes
C5_Witness ==
    /\ CutoffDone /\ ~DatesSupplied
    /\ op.start_time = 15 /\ op.end_time = 0
    /\ {TimeOfDay(t) : t \in Stamps(pre.df)} = {0, 9, 15}
    /\ {TimeOfDay(t) : t \in Stamps(df)} = {0, 15}

ConvertDone == op.name = "convert_tz"

\* the call cannot convert: a zone name pytz does not know, or an index
\* that has a zone already, which tz_localize refuses
ConvertFails ==
    \/ op.from_tz \notin ZoneNames
    \/ op.to_tz \notin ZoneNames
    \/ pre.idx_tz # "naive"

\* C6: a convert_tz that fails returns without raising and leaves the rows,
\* their timestamps, the zone of the index and self.tz as they were, with
\* an error logged.
C6_FailedConvertChangesNothing ==
    ConvertDone /\ ConvertFails =>
        /\ fault = "none"
        /\ df = pre.df /\ dfcols = pre.dfcols
        /\ idx_tz = pre.idx_tz /\ tz = pre.tz
        /\ Len(log) = 1 /\ log[1].level = "ERROR"

\* an unknown target zone on a naive table with rows
C6_Witness ==
    /\ ConvertDone
    /\ op.from_tz \in ZoneNames /\ op.to_tz \notin ZoneNames
    /\ pre.idx_tz = "naive" /\ pre.tz = "None"
    /\ df # <<>>
    /\ log = <<Error("UnknownTimeZoneError")>>

\* C7: convert_tz with valid zones on a naive table reads every timestamp
\* as from_tz and re-expresses it in to_tz; on a table already localized to
\* from_tz it re-expresses every timestamp in to_tz without localizing
\* again; either way self.tz becomes to_tz.
C7_ConvertAgainReexpresses ==
    /\ ConvertDone
    /\ op.from_tz \in ZoneNames /\ op.to_tz \in ZoneNames
    /\ pre.idx_tz \in {"naive", op.from_tz}
    => /\ df = Shifted(pre.df, op.from_tz, op.to_tz)
       /\ idx_tz = op.to_tz
       /\ tz = op.to_tz

\* the list write_csv is to write: the requested names, in their order,
\* without the timestamp's names and without the names that are no key
ValidColumns(columns, dict) ==
    SelectSeq(columns, LAMBDA c : c \notin Range(datetime_col) /\ c \in Keys(dict))

WriteDone == op.name = "write_csv"
\* the table is as a resample left it
AfterResample == ~pre.ohlc_dict.none /\ pre.dfcols = KeyList(pre.ohlc_dict)

\* C8: write_csv after a resample projects and writes exactly the
\* requested names, in their order, without the timestamp's names and the
\* names that are no key of the aggregation spec, and does not raise.
C8_WritesTheValidColumns ==
    WriteDone /\ AfterResample =>
        /\ fault = "none"
        /\ csv.written
        /\ csv.header = ValidColumns(op.columns, pre.ohlc_dict)
        /\ dfcols = ValidColumns(op.columns, pre.ohlc_dict)

\* C9: no call raises to its caller.
C9_NoCallRaises == fault = "none"

\* C10 as stated: in every state the table has one row per timestamp, in
\* ascending order.
C10_AlwaysSortedUnique == SortedUnique(df)

\* C10 as amended: a loaded table holds the rows of the file as the file
\* has them; after a resample that returns, the table has one row per
\* timestamp, in ascending order, and convert_tz, apply_cutoff,
\* apply_precision and write_csv keep a table that is so.
C10_SortedUniqueOnceResampled ==
    /\ ResampleDone => SortedUnique(df)
    /\ op.name \in {"convert_tz", "apply_cutoff", "apply_precision", "write_csv"}
           /\ SortedUnique(pre.df)
       => SortedUnique(df)

\* a file out of order, resampled to two rows
C10_Witness ==
    /\ ResampleDone
    /\ ~SortedUnique(pre.df)
    /\ Len(df) = 2

====
